---------------------------- MODULE Spec2Model ----------------------------
(***************************************************************************)
(* A model of engine/core/IgeEngine.js: the object register, the           *)
(* dependency-gated start()/stop() state machine with its setTimeout       *)
(* retry loop, the requestAnimFrame driven tick() and render(), the        *)
(* per-second statistics timer, the identifier generator and the scene     *)
(* graph traversals.                                                       *)
(*                                                                         *)
(* JavaScript `undefined` is modelled by the string "undefined" where the  *)
(* value is an object reference and by Undefined where it is a number.     *)
(* Both are falsy, as in the source.  Wall-clock time is the variable now: *)
(* new Date().getTime() reads it, and a setTimeout callback runs exactly   *)
(* when its delay has elapsed.                                             *)
(***************************************************************************)
EXTENDS Integers, Sequences, FiniteSets, TLC

VARIABLES
    register,               \* ige._register: id -> object reference
    registered,             \* obj._registered of every object
    state,                  \* ige._state: 0 stopped, 1 running
    dependencyCheckStart,   \* ige._dependencyCheckStart
    dependencyCheckTimeout, \* ige._dependencyCheckTimeout
    dependencyQueue,        \* ige._dependencyQueue: the names of the predicates
    texturesLoading,        \* ige._texturesLoading
    externalReady,          \* what the predicate a collaborator appended returns
    canvas,                 \* ige._canvas !== undefined
    isServer,               \* ige.isServer
    timers,                 \* pending setTimeout(function () { ige.start(callback); }, 200)
    now,                    \* the wall clock, in ms
    rafQueue,               \* callbacks pending with requestAnimFrame, oldest first
    frameAlternator,        \* ige._frameAlternator
    tickStart,              \* ige.tickStart
    lastTick,               \* ige.lastTick
    tickDelta,              \* ige.tickDelta
    frames,                 \* ige._frames
    drawCount,              \* ige._drawCount
    dpt,                    \* ige._dpt
    clientNetDiff,          \* ige._clientNetDiff
    children,               \* ige._children: the viewports, as records
    viewportDepth,          \* ige._viewportDepth
    ctxDepth,               \* depth of the canvas context's save() stack
    renderLog,              \* what the last render() call did to the context
    firstTick,              \* TRUE from a start() that set Running until a tick executes
    fps,                    \* ige._fps
    dps,                    \* ige._dps
    idCounter,              \* ige._idCounter
    scenes,                 \* scenes[i] is the _scene reference of ige._children[i]
    steps,                  \* the statements the last tick() executed, in order
    op,                     \* the operation the last step performed
    arg,                    \* its argument
    ret,                    \* its return value
    called,                 \* the start callbacks it invoked, in order
    armed                   \* how many frame callbacks it requested

vars == << register, registered, state, dependencyCheckStart, dependencyCheckTimeout,
           dependencyQueue, texturesLoading, externalReady, canvas, isServer, timers, now, rafQueue, frameAlternator,
           tickStart, lastTick, tickDelta, frames, drawCount, dpt, clientNetDiff,
           children, viewportDepth, ctxDepth, renderLog, firstTick,
           fps, dps, idCounter, scenes, steps, op, arg, ret, called, armed >>

registryVars == << register, registered >>

gateVars == << state, dependencyCheckStart, dependencyCheckTimeout, timers >>

envVars == << dependencyQueue, texturesLoading, externalReady, canvas, isServer >>

frameVars == << rafQueue, frameAlternator, tickStart, lastTick, tickDelta, frames,
                drawCount, dpt, clientNetDiff, firstTick >>

renderVars == << children, viewportDepth, ctxDepth, renderLog >>

statVars == << fps, dps >>

-----------------------------------------------------------------------------
(* Bounds of the model *)

MaxSteps == 5

MaxRaf == 2

MaxTimers == 1

MaxTextures == 1

MaxFrames == 3

MaxChildren == 3

MaxCtxDepth == 4

MaxDraws == 4

MaxIds == 3

MaxViewports == 2

MaxFanout == 2

MaxTreeDepth == 1

(* Program constants *)

RetryInterval == 200

DefaultDependencyTimeout == 30000

(* The number that stands for a numeric field that is still undefined *)
Undefined == -1

(* The wall clock when the engine is constructed *)
NowInit == 1000

TimeoutVals == {200, 300}

Callbacks == {"cb1", "cb2"}

NoCallback == "undefined"

NoObj == "undefined"

Objs == {"A", "B", "C"}

(* The identifiers objects report.  None of them names a property that a   *)
(* plain object inherits (such as "constructor"), so this._register[id] is  *)
(* truthy exactly when the register holds an entry for id.                  *)
Ids == {"ige", "x", "y"}

id(obj) ==
    CASE obj = "ige" -> "ige"
      [] obj = "A"   -> "x"
      [] obj = "B"   -> "x"
      [] obj = "C"   -> "y"

Depths == {1, 2, 3}

NodeRecs == [depth : Depths, throws : BOOLEAN]

Falsy(v) == v = Undefined \/ v = 0

(* The number that stands for NaN *)
NaN == -2

(* a * b of JavaScript, where a may be undefined *)
Times(a, b) == IF a = Undefined \/ a = NaN \/ b = NaN THEN NaN ELSE a * b

(* Sums of the four Math.random() * Math.pow(10, 17) draws *)
RandomSums == {0, 400}

HexDigit(d) ==
    CASE d = 0 -> "0" [] d = 1 -> "1" [] d = 2 -> "2" [] d = 3 -> "3"
      [] d = 4 -> "4" [] d = 5 -> "5" [] d = 6 -> "6" [] d = 7 -> "7"
      [] d = 8 -> "8" [] d = 9 -> "9" [] d = 10 -> "a" [] d = 11 -> "b"
      [] d = 12 -> "c" [] d = 13 -> "d" [] d = 14 -> "e" [] d = 15 -> "f"

(* n.toString(16) *)
RECURSIVE ToHex(_)
ToHex(n) == IF n < 16 THEN HexDigit(n) ELSE ToHex(n \div 16) \o HexDigit(n % 16)

NoRender == [saves |-> 0, restores |-> 0, order |-> << >>, threw |-> FALSE, draws |-> 0]

-----------------------------------------------------------------------------
(* init *)

InitCommon ==
    /\ register = [i \in Ids |-> IF i = "ige" THEN "ige" ELSE NoObj]
    /\ registered = [o \in Objs \cup {"ige"} |-> FALSE]
    /\ state = 0
    /\ dependencyCheckStart = Undefined
    /\ dependencyCheckTimeout = DefaultDependencyTimeout
    /\ dependencyQueue = << "texturesLoaded", "canvasReady" >>
    /\ texturesLoading = 0
    /\ externalReady = FALSE
    /\ canvas = FALSE
    /\ timers = << >>
    /\ now = NowInit
    /\ rafQueue = << >>
    /\ frameAlternator = FALSE
    /\ tickStart = Undefined
    /\ lastTick = Undefined
    /\ tickDelta = 0
    /\ frames = 0
    /\ drawCount = 0
    /\ dpt = Undefined
    /\ clientNetDiff = 0
    /\ viewportDepth = FALSE
    /\ ctxDepth = 0
    /\ renderLog = NoRender
    /\ firstTick = FALSE
    /\ fps = 0
    /\ dps = 0
    /\ idCounter = NowInit
    /\ steps = << >>
    /\ op = "init"
    /\ arg = "undefined"
    /\ ret = "undefined"
    /\ called = << >>
    /\ armed = 0


InitRegistry ==
    /\ InitCommon
    /\ scenes = << >>
    /\ isServer = FALSE
    /\ children = << >>

-----------------------------------------------------------------------------
(* What every step records about the call it made *)

Log(o, a, r) ==
    /\ op' = o
    /\ arg' = a
    /\ ret' = r

NoCalls ==
    /\ called' = << >>
    /\ armed' = 0
    /\ steps' = << >>

-----------------------------------------------------------------------------
(* The object register: register(obj), unRegister(obj) *)

RegisterArgs == Objs \cup {"ige"}

(* register() without the duplicate test: the entry is overwritten *)
RegisterOverwrite(obj) ==
    /\ obj \in RegisterArgs
    /\ register' = [register EXCEPT ![id(obj)] = obj]
    /\ registered' = [registered EXCEPT ![obj] = TRUE]
    /\ Log("register", obj, "this")
    /\ NoCalls
    /\ UNCHANGED << statVars, idCounter, scenes, gateVars, envVars, now, frameVars, renderVars >>

Register(obj) ==
    /\ obj \in RegisterArgs
    /\ IF register[id(obj)] = NoObj
       THEN /\ register' = [register EXCEPT ![id(obj)] = obj]
            /\ registered' = [registered EXCEPT ![obj] = TRUE]
            /\ Log("register", obj, "this")
       ELSE /\ registered' = [registered EXCEPT ![obj] = FALSE]
            /\ register' = register
            /\ Log("register", obj, "false")
    /\ NoCalls
    /\ UNCHANGED << statVars, idCounter, scenes, gateVars, envVars, now, frameVars, renderVars >>

(* register() with no argument returns the register itself *)
RegisterNothing ==
    /\ Log("register", "undefined", "_register")
    /\ NoCalls
    /\ UNCHANGED << statVars, idCounter, scenes, registryVars, gateVars, envVars, now, frameVars, renderVars >>

UnRegister(obj) ==
    /\ obj \in RegisterArgs
    /\ IF register[id(obj)] # NoObj
       THEN /\ register' = [register EXCEPT ![id(obj)] = NoObj]
            /\ registered' = [registered EXCEPT ![obj] = FALSE]
       ELSE UNCHANGED registryVars
    /\ Log("unRegister", obj, "this")
    /\ NoCalls
    /\ UNCHANGED << statVars, idCounter, scenes, gateVars, envVars, now, frameVars, renderVars >>

UnRegisterNothing ==
    /\ Log("unRegister", "undefined", "this")
    /\ NoCalls
    /\ UNCHANGED << statVars, idCounter, scenes, registryVars, gateVars, envVars, now, frameVars, renderVars >>

NextRegistry ==
    \/ \E obj \in RegisterArgs : Register(obj)
    \/ RegisterNothing
    \/ \E obj \in RegisterArgs : UnRegister(obj)
    \/ UnRegisterNothing

SpecRegistry == InitRegistry /\ [][NextRegistry]_vars


-----------------------------------------------------------------------------
(* The start dependencies: texturesLoaded, canvasReady, dependencyCheck *)

texturesLoaded == texturesLoading = 0

canvasReady == canvas \/ isServer

Predicate(p) ==
    CASE p = "texturesLoaded" -> texturesLoaded
      [] p = "canvasReady"    -> canvasReady
      [] p = "external"       -> externalReady

RECURSIVE DependencyLoop(_)
DependencyLoop(arrCount) ==
    IF arrCount = 0
    THEN TRUE
    ELSE IF ~Predicate(dependencyQueue[arrCount])
         THEN FALSE
         ELSE DependencyLoop(arrCount - 1)

(* a check that looks at the newest queue entry only *)
dependencyCheckLastOnly == Predicate(dependencyQueue[Len(dependencyQueue)])

dependencyCheck == DependencyLoop(Len(dependencyQueue))

-----------------------------------------------------------------------------
(* start(callback) and stop().  StartBody is the body of start(): a call by *)
(* the application passes first = Undefined and rest = timers, the retry    *)
(* timer passes the time of its attempt's first failed check and the timers *)
(* that remain.  first is bookkeeping of the model, the code does not hold  *)
(* it.                                                                     *)

IsFunction(cb) == cb \in Callbacks

Invoke(cb, success, first) ==
    IF IsFunction(cb)
    THEN << [cb |-> cb, success |-> success,
             waited |-> IF first = Undefined THEN 0 ELSE now - first] >>
    ELSE << >>

(* requestAnimFrame(ige.tick) that enqueues the callback twice *)
requestAnimFrameTwice(q) == q \o << [stale |-> FALSE], [stale |-> FALSE] >>

(* requestAnimFrame(ige.tick): one more callback is pending.  stale is       *)
(* bookkeeping of the model: stop() sets it on the callbacks pending then.   *)
requestAnimFrame(q) == Append(q, [stale |-> FALSE])

(* start() found running that requests a frame all the same *)
StartRunningRearms(rest) ==
    /\ called' = << >>
    /\ rafQueue' = requestAnimFrame(rafQueue)
    /\ armed' = 1
    /\ timers' = rest
    /\ UNCHANGED << state, firstTick, dependencyCheckStart >>

(* start() when ige._state is not 0: the body of the if is skipped *)
StartRunning(rest) ==
    /\ called' = << >>
    /\ armed' = 0
    /\ timers' = rest
    /\ UNCHANGED << state, rafQueue, firstTick, dependencyCheckStart >>

(* The timed out branch that reports the failure and schedules a retry too *)
GiveUpAndRetry(cb, mine, rest) ==
    /\ called' = Invoke(cb, FALSE, mine)
    /\ timers' = Append(rest, [due |-> now + RetryInterval, cb |-> cb, first |-> mine])

(* The branch of line 368: the wait has exceeded the timeout *)
GiveUp(cb, mine, rest) ==
    /\ called' = Invoke(cb, FALSE, mine)
    /\ timers' = rest

StartBody(cb, first, rest) ==
    IF state = 0
    THEN IF dependencyCheck
         THEN /\ state' = 1
              /\ rafQueue' = requestAnimFrame(rafQueue)
              /\ armed' = Len(requestAnimFrame(rafQueue)) - Len(rafQueue)
              /\ called' = Invoke(cb, TRUE, first)
              /\ timers' = rest
              /\ firstTick' = TRUE
              /\ UNCHANGED dependencyCheckStart
         ELSE LET curTime == now
                  started == IF Falsy(dependencyCheckStart)
                             THEN curTime
                             ELSE dependencyCheckStart
                  mine    == IF first = Undefined THEN curTime ELSE first
              IN  /\ dependencyCheckStart' = started
                  /\ IF curTime - started > dependencyCheckTimeout
                     THEN GiveUp(cb, mine, rest)
                     ELSE /\ called' = << >>
                          /\ timers' = Append(rest, [due   |-> curTime + RetryInterval,
                                                     cb    |-> cb,
                                                     first |-> mine])
                  /\ armed' = 0
                  /\ UNCHANGED << state, rafQueue, firstTick >>
    ELSE StartRunning(rest)

Start(cb) ==
    /\ Len(timers) < MaxTimers
    /\ Len(rafQueue) < MaxRaf
    /\ StartBody(cb, Undefined, timers)
    /\ Log("start", cb, "undefined")
    /\ steps' = << >>
    /\ UNCHANGED << statVars, idCounter, scenes, registryVars, dependencyCheckTimeout, envVars, now,
                    frameAlternator, tickStart, lastTick, tickDelta, frames,
                    drawCount, dpt, clientNetDiff, renderVars >>

(* The retry timer of line 375 fires *)
Retry ==
    /\ timers # << >>
    /\ Head(timers).due <= now
    /\ StartBody(Head(timers).cb, Head(timers).first, Tail(timers))
    /\ Log("retry", Head(timers).cb, "undefined")
    /\ steps' = << >>
    /\ UNCHANGED << statVars, idCounter, scenes, registryVars, dependencyCheckTimeout, envVars, now,
                    frameAlternator, tickStart, lastTick, tickDelta, frames,
                    drawCount, dpt, clientNetDiff, renderVars >>

(* A retry timer for callback cb is pending *)
Pending(cb) == \E i \in 1..Len(timers) : timers[i].cb = cb

(* The step invoked callback cb *)
Invoked(cb) == \E i \in 1..Len(called) : called[i].cb = cb

(* The latest time at which a caller calls start(callback) *)
LastStart == NowInit + RetryInterval \div 2

(* start(cb) by a caller that has no earlier call with cb outstanding;     *)
(* calls of other callers may be waiting in their retry loops.             *)
StartAttempt(cb) ==
    /\ cb \in Callbacks
    /\ ~Pending(cb)
    /\ now <= LastStart
    /\ Len(rafQueue) < MaxRaf
    /\ StartBody(cb, Undefined, timers)
    /\ Log("start", cb, "undefined")
    /\ steps' = << >>
    /\ UNCHANGED << statVars, idCounter, scenes, registryVars, dependencyCheckTimeout, envVars, now,
                    frameAlternator, tickStart, lastTick, tickDelta, frames,
                    drawCount, dpt, clientNetDiff, renderVars >>

MarkStale(q) == [i \in 1..Len(q) |-> [stale |-> TRUE]]

(* stop() that reports success whatever the state *)
StopAlwaysTrue ==
    /\ state' = 0
    /\ rafQueue' = MarkStale(rafQueue)
    /\ Log("stop", "undefined", "true")
    /\ NoCalls
    /\ UNCHANGED << statVars, idCounter, scenes, registryVars, dependencyCheckStart, dependencyCheckTimeout, timers,
                    envVars, now, frameAlternator, tickStart, lastTick, tickDelta,
                    frames, drawCount, dpt, clientNetDiff, firstTick, renderVars >>

Stop ==
    /\ IF state # 0
       THEN /\ state' = 0
            /\ rafQueue' = MarkStale(rafQueue)
            /\ Log("stop", "undefined", "true")
       ELSE /\ UNCHANGED << state, rafQueue >>
            /\ Log("stop", "undefined", "false")
    /\ NoCalls
    /\ UNCHANGED << statVars, idCounter, scenes, registryVars, dependencyCheckStart, dependencyCheckTimeout, timers,
                    envVars, now, frameAlternator, tickStart, lastTick, tickDelta,
                    frames, drawCount, dpt, clientNetDiff, firstTick, renderVars >>

DependencyTimeout(val) ==
    /\ timers = << >>
    /\ dependencyCheckTimeout' = val
    /\ Log("dependencyTimeout", "undefined", "undefined")
    /\ NoCalls
    /\ UNCHANGED << statVars, idCounter, scenes, registryVars, state, dependencyCheckStart, timers, envVars, now,
                    frameVars, renderVars >>

-----------------------------------------------------------------------------
(* The collaborators the dependencies read *)

TextureLoadStart ==
    /\ texturesLoading < MaxTextures
    /\ texturesLoading' = texturesLoading + 1
    /\ Log("textureLoadStart", "undefined", "undefined")
    /\ NoCalls
    /\ UNCHANGED << statVars, idCounter, scenes, registryVars, gateVars, dependencyQueue, externalReady, canvas,
                    isServer, now, frameVars, renderVars >>

TextureLoadEnd ==
    /\ texturesLoading > 0
    /\ texturesLoading' = texturesLoading - 1
    /\ Log("textureLoadEnd", "undefined", "undefined")
    /\ NoCalls
    /\ UNCHANGED << statVars, idCounter, scenes, registryVars, gateVars, dependencyQueue, externalReady, canvas,
                    isServer, now, frameVars, renderVars >>

Canvas ==
    /\ ~canvas
    /\ canvas' = TRUE
    /\ Log("canvas", "undefined", "undefined")
    /\ NoCalls
    /\ UNCHANGED << statVars, idCounter, scenes, registryVars, gateVars, dependencyQueue, texturesLoading,
                    externalReady, isServer, now, frameVars, renderVars >>

(* A collaborator appends its own predicate to ige._dependencyQueue, before *)
(* start() is first called                                                  *)
PushDependency ==
    /\ state = 0 /\ dependencyCheckStart = Undefined /\ rafQueue = << >>
    /\ \A i \in 1..Len(dependencyQueue) : dependencyQueue[i] # "external"
    /\ dependencyQueue' = Append(dependencyQueue, "external")
    /\ Log("pushDependency", "undefined", "undefined")
    /\ NoCalls
    /\ UNCHANGED << statVars, idCounter, scenes, registryVars, gateVars, texturesLoading, externalReady, canvas,
                    isServer, now, frameVars, renderVars >>

(* The collaborator's predicate starts to return true *)
ExternalReady ==
    /\ \E i \in 1..Len(dependencyQueue) : dependencyQueue[i] = "external"
    /\ ~externalReady
    /\ externalReady' = TRUE
    /\ Log("externalReady", "undefined", "undefined")
    /\ NoCalls
    /\ UNCHANGED << statVars, idCounter, scenes, registryVars, gateVars, dependencyQueue, texturesLoading, canvas,
                    isServer, now, frameVars, renderVars >>

(* Time passes; a timer that is due runs first *)
Advance ==
    /\ now < NowInit + MaxSteps * (RetryInterval \div 2)
    /\ \A i \in 1..Len(timers) : timers[i].due > now
    /\ now' = now + RetryInterval \div 2
    /\ Log("advance", "undefined", "undefined")
    /\ NoCalls
    /\ UNCHANGED << statVars, idCounter, scenes, registryVars, gateVars, envVars, frameVars, renderVars >>


-----------------------------------------------------------------------------
(* render(ctx): the save()/restore() calls on the context and the order in  *)
(* which the viewports are ticked.  A viewport's tick either draws once     *)
(* (one ige._drawCount++) or throws.                                        *)

RECURSIVE InsertByDepth(_, _)
InsertByDepth(node, sorted) ==
    IF sorted = << >>
    THEN << node >>
    ELSE IF Head(sorted).depth <= node.depth
         THEN << node >> \o sorted
         ELSE << Head(sorted) >> \o InsertByDepth(node, Tail(sorted))

RECURSIVE depthSortChildren(_)
depthSortChildren(arr) ==
    IF arr = << >>
    THEN << >>
    ELSE InsertByDepth(Head(arr), depthSortChildren(Tail(arr)))

(* the loop of render() running from the first viewport to the last *)
RECURSIVE RenderLoopForward(_, _, _)
RenderLoopForward(arr, arrCount, acc) ==
    IF arrCount = 0
    THEN acc
    ELSE LET node  == arr[Len(arr) - arrCount + 1]
             saved == [acc EXCEPT !.saves = @ + 1, !.order = Append(@, node.depth)]
         IN  IF node.throws
             THEN [saved EXCEPT !.threw = TRUE]
             ELSE RenderLoopForward(arr, arrCount - 1,
                                    [saved EXCEPT !.restores = @ + 1, !.draws = @ + 1])

RECURSIVE RenderLoop(_, _, _)
RenderLoop(arr, arrCount, acc) ==
    IF arrCount = 0
    THEN acc
    ELSE LET saved == [acc EXCEPT !.saves = @ + 1,
                                  !.order = Append(@, arr[arrCount].depth)]
         IN  IF arr[arrCount].throws
             THEN [saved EXCEPT !.threw = TRUE]
             ELSE RenderLoop(arr, arrCount - 1,
                             [saved EXCEPT !.restores = @ + 1, !.draws = @ + 1])

render(arr) ==
    LET outer == [NoRender EXCEPT !.saves = 1]
        r     == RenderLoop(arr, Len(arr), outer)
    IN  IF r.threw THEN r ELSE [r EXCEPT !.restores = @ + 1]

SortedChildren == IF viewportDepth THEN depthSortChildren(children) ELSE children

(* A call of render(ctx) by itself *)
Render ==
    /\ ctxDepth < MaxCtxDepth
    /\ drawCount < MaxDraws
    /\ LET r == render(SortedChildren)
       IN  /\ children' = SortedChildren
           /\ ctxDepth' = ctxDepth + r.saves - r.restores
           /\ renderLog' = r
           /\ drawCount' = drawCount + r.draws
           /\ Log("render", "undefined", IF r.threw THEN "throws" ELSE "undefined")
    /\ NoCalls
    /\ UNCHANGED << statVars, idCounter, scenes, registryVars, gateVars, envVars, now, rafQueue, frameAlternator,
                    tickStart, lastTick, tickDelta, frames, dpt, clientNetDiff,
                    firstTick, viewportDepth >>

ViewportDepth(val) ==
    /\ viewportDepth' = val
    /\ Log("viewportDepth", "undefined", "this")
    /\ NoCalls
    /\ UNCHANGED << statVars, idCounter, scenes, registryVars, gateVars, envVars, now, frameVars, children, ctxDepth,
                    renderLog >>

-----------------------------------------------------------------------------
(* tick(timeStamp, ctx): the frame callback at the head of the queue runs,  *)
(* with the wall clock as its timeStamp                                     *)

(* The statements of tick() when ige._state is truthy, in source order *)
TickStatements ==
    << "requestAnimFrame", "_frameAlternator", "tickStart", "tickDelta",
       "_processBehaviours", "render", "lastTick", "_frames", "_dpt", "_drawCount",
       "input.tick" >>

(* Those executed when render() throws: the exception leaves tick() *)
TickStatementsToRender == SubSeq(TickStatements, 1, 6)

(* tick() found stopped that requests the next frame all the same *)
TickIdleRearms ==
    /\ rafQueue' = requestAnimFrame(Tail(rafQueue))
    /\ armed' = 1
    /\ steps' = << "requestAnimFrame" >>
    /\ Log("tick", "undefined", "undefined")
    /\ UNCHANGED << frameAlternator, tickStart, lastTick, tickDelta, frames,
                    drawCount, dpt, firstTick, children, ctxDepth, renderLog >>

(* tick() when ige._state is 0: the body of the if of line 631 is skipped *)
TickIdle ==
    /\ rafQueue' = Tail(rafQueue)
    /\ armed' = 0
    /\ steps' = << >>
    /\ Log("tick", "undefined", "undefined")
    /\ UNCHANGED << frameAlternator, tickStart, lastTick, tickDelta, frames,
                    drawCount, dpt, firstTick, children, ctxDepth, renderLog >>

Tick ==
    /\ rafQueue # << >>
    /\ IF state # 0
       THEN /\ frames < MaxFrames
            /\ ctxDepth < MaxCtxDepth
            /\ LET r         == render(SortedChildren)
                   corrected == now - clientNetDiff
               IN  /\ rafQueue' = requestAnimFrame(Tail(rafQueue))
                   /\ armed' = Len(requestAnimFrame(Tail(rafQueue))) - Len(Tail(rafQueue))
                   /\ frameAlternator' = ~frameAlternator
                   /\ tickStart' = corrected
                   /\ tickDelta' = IF Falsy(lastTick) THEN 0 ELSE corrected - lastTick
                   /\ children' = SortedChildren
                   /\ ctxDepth' = ctxDepth + r.saves - r.restores
                   /\ renderLog' = r
                   /\ IF r.threw
                      THEN /\ lastTick' = IF Falsy(lastTick) THEN 0 ELSE lastTick
                           /\ drawCount' = drawCount + r.draws
                           /\ steps' = TickStatementsToRender
                           /\ UNCHANGED << frames, dpt >>
                           /\ Log("tick", "undefined", "throws")
                      ELSE /\ lastTick' = corrected
                           /\ frames' = frames + 1
                           /\ dpt' = drawCount + r.draws
                           /\ drawCount' = 0
                           /\ steps' = TickStatements
                           /\ Log("tick", "undefined", "undefined")
                   /\ firstTick' = FALSE
       ELSE TickIdle
    /\ called' = << >>
    /\ UNCHANGED << statVars, idCounter, scenes, registryVars, gateVars, envVars, now,
                    clientNetDiff, viewportDepth >>

-----------------------------------------------------------------------------
(* _secondTick(), which setInterval runs every 1000 ms from construction on, *)
(* whatever the state                                                        *)

SecondTick ==
    /\ fps' = frames
    /\ dps' = Times(dpt, frames)
    /\ frames' = 0
    /\ drawCount' = 0
    /\ Log("secondTick", "undefined", "undefined")
    /\ NoCalls
    /\ UNCHANGED << idCounter, scenes, registryVars, gateVars, envVars, now, rafQueue,
                    frameAlternator, tickStart, lastTick, tickDelta, dpt, clientNetDiff,
                    firstTick, renderVars >>

-----------------------------------------------------------------------------
(* newId(), newIdHex() *)

(* newId() that builds the identifier from the counter as it is *)
NewIdNoIncrement ==
    /\ idCounter < NowInit + MaxIds
    /\ \E r \in RandomSums : Log("newId", "undefined", ToString(idCounter + r))
    /\ NoCalls
    /\ UNCHANGED << idCounter, statVars, scenes, registryVars, gateVars, envVars, now,
                    frameVars, renderVars >>

NewId ==
    /\ idCounter < NowInit + MaxIds
    /\ idCounter' = idCounter + 1
    /\ \E r \in RandomSums : Log("newId", "undefined", ToString(idCounter' + r))
    /\ NoCalls
    /\ UNCHANGED << statVars, scenes, registryVars, gateVars, envVars, now, frameVars,
                    renderVars >>

NewIdHex ==
    /\ idCounter < NowInit + MaxIds
    /\ idCounter' = idCounter + 1
    /\ \E r \in RandomSums : Log("newIdHex", "undefined", ToHex(idCounter' + r))
    /\ NoCalls
    /\ UNCHANGED << statVars, scenes, registryVars, gateVars, envVars, now, frameVars,
                    renderVars >>

-----------------------------------------------------------------------------
(* The network component stores the clock offset of a client in             *)
(* ige._clientNetDiff                                                       *)

ClockOffsets == {0, NowInit}

ClientNetDiff(val) ==
    /\ clientNetDiff # val
    /\ clientNetDiff' = val
    /\ Log("clientNetDiff", "undefined", "undefined")
    /\ NoCalls
    /\ UNCHANGED << statVars, idCounter, scenes, registryVars, gateVars, envVars, now,
                    rafQueue, frameAlternator, tickStart, lastTick, tickDelta, frames,
                    drawCount, dpt, firstTick, renderVars >>

-----------------------------------------------------------------------------
(* sceneGraph(), getSceneGraphData().  A node of a scene is a record: with  *)
(* hasChildren false its _children is undefined.  A viewport's _scene       *)
(* reference is a record too: with present false it is undefined.           *)

NoChildrenNode == [hasChildren |-> FALSE, children |-> << >>]

NoScene == [present |-> FALSE, shouldRender |-> FALSE, root |-> NoChildrenNode]

RECURSIVE NonEmptySeqs(_, _)
NonEmptySeqs(S, n) ==
    IF n = 0
    THEN { }
    ELSE { << x >> : x \in S }
             \cup { Append(q, x) : q \in NonEmptySeqs(S, n - 1), x \in S }

RECURSIVE TreeNodes(_)
TreeNodes(d) ==
    IF d = 0
    THEN { NoChildrenNode, [hasChildren |-> TRUE, children |-> << >>] }
    ELSE TreeNodes(d - 1)
             \cup { [hasChildren |-> TRUE, children |-> q] :
                        q \in NonEmptySeqs(TreeNodes(d - 1), MaxFanout) }

SceneRefs ==
    { NoScene } \cup [present : {TRUE}, shouldRender : BOOLEAN, root : TreeNodes(MaxTreeDepth)]

(* The else branch of sceneGraph(obj): one line for obj, then its children  *)
(* from the last to the first.  The value is the number of lines logged.    *)
RECURSIVE SceneGraphNode(_)
RECURSIVE SceneGraphLoop(_, _)
SceneGraphNode(obj) ==
    1 + (IF obj.hasChildren THEN SceneGraphLoop(obj.children, Len(obj.children)) ELSE 0)

SceneGraphLoop(arr, arrCount) ==
    IF arrCount = 0
    THEN 0
    ELSE SceneGraphNode(arr[arrCount]) + SceneGraphLoop(arr, arrCount - 1)

(* The loop over the viewports of sceneGraph(ige): arr[arrCount]._scene is  *)
(* dereferenced whether it is defined or not.                               *)
RECURSIVE SceneGraphViewports(_, _, _)
SceneGraphViewports(arr, arrCount, acc) ==
    IF arrCount = 0
    THEN acc
    ELSE IF ~arr[arrCount].present
         THEN [acc EXCEPT !.threw = TRUE]
         ELSE IF arr[arrCount].shouldRender
              THEN SceneGraphViewports(arr, arrCount - 1,
                       [acc EXCEPT !.lines = @ + 1 + SceneGraphNode(arr[arrCount].root)])
              ELSE SceneGraphViewports(arr, arrCount - 1, acc)

sceneGraph == SceneGraphViewports(scenes, Len(scenes), [threw |-> FALSE, lines |-> 1])

SceneGraph ==
    /\ Log("sceneGraph", "undefined", IF sceneGraph.threw THEN "throws" ELSE "undefined")
    /\ NoCalls
    /\ UNCHANGED << statVars, idCounter, scenes, registryVars, gateVars, envVars, now,
                    frameVars, renderVars >>

(* getSceneGraphData(obj): the value is the number of items of the result *)
RECURSIVE GetSceneGraphDataNode(_)
RECURSIVE GetSceneGraphDataLoop(_, _)
GetSceneGraphDataNode(obj) ==
    1 + (IF obj.hasChildren THEN GetSceneGraphDataLoop(obj.children, Len(obj.children)) ELSE 0)

GetSceneGraphDataLoop(arr, arrCount) ==
    IF arrCount = 0
    THEN 0
    ELSE GetSceneGraphDataNode(arr[arrCount]) + GetSceneGraphDataLoop(arr, arrCount - 1)

RECURSIVE GetSceneGraphDataViewports(_, _)
GetSceneGraphDataViewports(arr, arrCount) ==
    IF arrCount = 0
    THEN 0
    ELSE 1 + (IF arr[arrCount].present THEN GetSceneGraphDataNode(arr[arrCount].root) ELSE 0)
           + GetSceneGraphDataViewports(arr, arrCount - 1)

getSceneGraphData == 1 + GetSceneGraphDataViewports(scenes, Len(scenes))

GetSceneGraphData ==
    /\ Log("getSceneGraphData", "undefined", ToString(getSceneGraphData))
    /\ NoCalls
    /\ UNCHANGED << statVars, idCounter, scenes, registryVars, gateVars, envVars, now,
                    frameVars, renderVars >>

-----------------------------------------------------------------------------
(* The specifications *)

(* The start gate: start(), its retry timer, stop(), the timeout setting,  *)
(* the texture loader and the canvas, and the passing of time               *)
InitGate ==
    /\ InitCommon
    /\ scenes = << >>
    /\ isServer \in BOOLEAN
    /\ children = << >>

NextGate ==
    \/ \E cb \in {"cb1", NoCallback} : Start(cb)
    \/ Retry
    \/ Stop
    \/ \E val \in TimeoutVals : DependencyTimeout(val)
    \/ TextureLoadStart
    \/ TextureLoadEnd
    \/ Canvas
    \/ PushDependency
    \/ ExternalReady
    \/ Advance

SpecGate == InitGate /\ [][NextGate]_vars

(* The frame loop of an engine whose dependencies are satisfied: start(),   *)
(* stop(), the frame callbacks and the passing of time.  The viewports are  *)
(* mounted before the engine is started.                                    *)
MountedChildren ==
    { << >>, << [depth |-> 1, throws |-> FALSE] >>, << [depth |-> 1, throws |-> TRUE] >> }

InitFrame ==
    /\ InitCommon
    /\ scenes = << >>
    /\ isServer = TRUE
    /\ children \in MountedChildren

NextFrame ==
    \/ \E cb \in Callbacks : Start(cb)
    \/ Stop
    \/ Tick
    \/ Advance

SpecFrame == InitFrame /\ [][NextFrame]_vars

(* render() on every root collection of up to MaxChildren viewports *)
RECURSIVE SeqsUpTo(_)
SeqsUpTo(n) ==
    IF n = 0
    THEN { << >> }
    ELSE LET shorter == SeqsUpTo(n - 1)
         IN  shorter \cup { Append(q, node) : q \in { t \in shorter : Len(t) = n - 1 },
                                              node \in NodeRecs }

InitRender ==
    /\ InitCommon
    /\ scenes = << >>
    /\ isServer = FALSE
    /\ children \in SeqsUpTo(MaxChildren)

NextRender ==
    \/ Render
    \/ \E val \in BOOLEAN : ViewportDepth(val)

SpecRender == InitRender /\ [][NextRender]_vars


(* The counters of a started engine: the frame callbacks, the per-second   *)
(* timer, the identifier generator and the register, in every interleaving. *)
InitCounters ==
    /\ InitCommon
    /\ scenes = << >>
    /\ isServer = TRUE
    /\ children \in MountedChildren

NextCounters ==
    \/ Start("cb1")
    \/ Stop
    \/ Tick
    \/ SecondTick
    \/ NewId
    \/ NewIdHex
    \/ Register("A")
    \/ UnRegister("A")

SpecCounters == InitCounters /\ [][NextCounters]_vars

(* The frame loop of a networked client: the clock offset changes between *)
(* ticks.  No viewport is mounted.                                          *)
InitDelta ==
    /\ InitCommon
    /\ scenes = << >>
    /\ isServer = TRUE
    /\ children = << >>

NextDelta ==
    \/ Start("cb1")
    \/ Stop
    \/ Tick
    \/ Advance
    \/ \E val \in ClockOffsets : ClientNetDiff(val)

SpecDelta == InitDelta /\ [][NextDelta]_vars

(* The diagnostic traversals on every root collection of up to MaxViewports *)
(* viewports, whose scenes are trees of depth up to MaxTreeDepth             *)
InitScene ==
    /\ InitCommon
    /\ isServer = FALSE
    /\ scenes \in { << >> } \cup NonEmptySeqs(SceneRefs, MaxViewports)
    /\ children = [i \in 1..Len(scenes) |-> [depth |-> 1, throws |-> FALSE]]

NextScene ==
    \/ SceneGraph
    \/ GetSceneGraphData

SpecScene == InitScene /\ [][NextScene]_vars

(* Several start() calls on a client whose canvas is bound at some time.   *)
(* A timer that is due fires and time passes: the fairness of setTimeout.   *)
InitAttempts ==
    /\ InitCommon
    /\ scenes = << >>
    /\ isServer = FALSE
    /\ children = << >>

NextAttempts ==
    \/ \E cb \in Callbacks : StartAttempt(cb)
    \/ Retry
    \/ Stop
    \/ Canvas
    \/ Advance
    \/ \E val \in TimeoutVals : DependencyTimeout(val)

SpecAttempts ==
    /\ InitAttempts
    /\ [][NextAttempts]_vars
    /\ WF_vars(Retry)
    /\ WF_vars(Advance)

-----------------------------------------------------------------------------
(* The claims *)

AllPredicatesTrue ==
    /\ texturesLoading = 0
    /\ canvas \/ isServer
    /\ \A i \in 1..Len(dependencyQueue) : dependencyQueue[i] = "external" => externalReady

Failures(calls) == { i \in 1..Len(calls) : ~calls[i].success }

C2_UnregisterIdempotence ==
    [][ (op' = "unRegister" /\ arg' \in RegisterArgs /\ register[id(arg')] # arg')
            => register' = register
      ]_vars

(* C3: a start(callback) that runs while Stopped with every dependency      *)
(* predicate true sets the state to Running, requests exactly one frame     *)
(* callback and invokes callback exactly once, with true, in that call.     *)
C3_GateSuccess ==
    [][ (op' \in {"start", "retry"} /\ state = 0 /\ AllPredicatesTrue)
            => /\ state' = 1
               /\ armed' = 1
               /\ Len(rafQueue') = Len(rafQueue) + 1
               /\ IsFunction(arg')
                     => /\ Len(called') = 1
                        /\ called'[1].cb = arg'
                        /\ called'[1].success
      ]_vars

C3_Witness ==
    /\ op = "start" /\ arg = "cb1"
    /\ state = 1
    /\ armed = 1
    /\ Len(called) = 1 /\ called[1].success

(* C4: every callback(false) is reported no earlier than the configured     *)
(* timeout and no later than the timeout plus the retry interval after the  *)
(* first failed check of the start() call it answers, with the state        *)
(* Stopped.                                                                 *)
C4_GateTimeout ==
    [][ \A i \in Failures(called') :
            /\ called'[i].waited >= dependencyCheckTimeout
            /\ called'[i].waited <= dependencyCheckTimeout + RetryInterval
            /\ state' = 0
      ]_vars

(* C5: the state changes from Stopped to Running only in a start() step     *)
(* (a call or a retry) in whose state textures are loaded and the canvas is *)
(* ready.                                                                   *)
C5_RunningOnlyWhenAllTrue ==
    [][ (state = 0 /\ state' = 1)
            => (op' \in {"start", "retry"} /\ AllPredicatesTrue)
      ]_vars

C5_Witness ==
    /\ op = "retry"
    /\ state = 1
    /\ Len(called) = 1 /\ called[1].success /\ called[1].waited > 0

(* C6: a start() call made while Stopped, with no earlier attempt waiting   *)
(* and a failing predicate, takes the time of this first failed check as    *)
(* the first-failure timestamp and so does not report callback(false) on    *)
(* that check.                                                              *)
C6_FreshAttemptResets ==
    [][ (op' = "start" /\ state = 0 /\ timers = << >> /\ ~AllPredicatesTrue)
            => (dependencyCheckStart' = now /\ Failures(called') = {})
      ]_vars

(* C7: stop() returns true exactly when the state was Running, the state is *)
(* Stopped after it, and a stop() right after a stop() that returned true   *)
(* returns false.                                                           *)
C7_StopResult ==
    [][ op' = "stop"
            => /\ (ret' = "true") <=> (state = 1)
               /\ ret' \in {"true", "false"}
               /\ state' = 0
               /\ (op = "stop" /\ ret = "true") => ret' = "false"
      ]_vars

C7_Witness ==
    /\ op = "stop" /\ ret = "false"
    /\ rafQueue # << >> /\ rafQueue[1].stale

(* C8: a frame callback that was pending when stop() was called does no     *)
(* work when it fires: it requests no frame, leaves the alternator, the     *)
(* timing fields and the counters alone.                                    *)
C8_StopCancels ==
    [][ (op' = "tick" /\ rafQueue # << >> /\ Head(rafQueue).stale)
            => /\ armed' = 0
               /\ rafQueue' = Tail(rafQueue)
               /\ UNCHANGED << frameAlternator, tickStart, lastTick, tickDelta,
                               frames, drawCount, dpt >>
      ]_vars

(* C9: the first tick that executes after a start() that set the state to   *)
(* Running sets tickDelta to 0.  Only ticks fired by a frame callback that  *)
(* no stop() has outlived are looked at, so that a violation does not rest  *)
(* on a callback left over from an earlier run.                             *)
C9_FirstTickDeltaZero ==
    [][ (op' = "tick" /\ state = 1 /\ firstTick /\ ~Head(rafQueue).stale)
            => tickDelta' = 0
      ]_vars

(* C10: when render() is left it has issued one save() per viewport plus    *)
(* one, and as many restore() calls as save() calls.                        *)
C10_RenderScoping ==
    op = "render"
        => /\ renderLog.saves = Len(children) + 1
           /\ renderLog.restores = renderLog.saves


DepthsOf(arr) == [i \in 1..Len(arr) |-> arr[i].depth]

Reverse(q) == [i \in 1..Len(q) |-> q[Len(q) + 1 - i]]

IsPrefix(p, q) == Len(p) <= Len(q) /\ \A i \in 1..Len(p) : p[i] = q[i]

Occurrences(arr, node) == Cardinality({ i \in 1..Len(arr) : arr[i] = node })

(* C11, as claimed: a render() in which no viewport throws ticks the        *)
(* viewports in the stored order when depth sorting is off and leaves the   *)
(* collection as it is; when it is on, it ticks them by ascending depth.    *)
C11_RenderInStoredOrder ==
    [][ (op' = "render" /\ ~renderLog'.threw)
            => IF viewportDepth
               THEN \A i, j \in 1..Len(renderLog'.order) :
                        i < j => renderLog'.order[i] <= renderLog'.order[j]
               ELSE /\ children' = children
                    /\ renderLog'.order = DepthsOf(children)
      ]_vars

(* C11, amended: render() ticks the viewports from the last stored one to   *)
(* the first, up to the first that throws.  With depth sorting off the      *)
(* collection is left as it is; with it on the collection is first          *)
(* reordered, highest depth first, so that the ticks run by ascending       *)
(* depth.                                                                   *)
C11_DepthSortToggle ==
    [][ op' = "render"
            => /\ IsPrefix(renderLog'.order, Reverse(DepthsOf(children')))
               /\ ~renderLog'.threw => Len(renderLog'.order) = Len(children)
               /\ IF viewportDepth
                  THEN /\ \A i, j \in 1..Len(children') :
                              i < j => children'[i].depth >= children'[j].depth
                       /\ \A node \in NodeRecs :
                              Occurrences(children', node) = Occurrences(children, node)
                  ELSE children' = children
      ]_vars

C11_Witness ==
    /\ op = "render"
    /\ ~viewportDepth
    /\ DepthsOf(children) = << 3, 1, 2 >>
    /\ renderLog.order = << 2, 1, 3 >>


(* C12: a start(callback) call, or a retry, that finds the engine running   *)
(* leaves it running, requests no frame, schedules no retry timer, leaves   *)
(* the first-failure timestamp alone and does not invoke callback.          *)
C12_StartWhileRunning ==
    [][ (op' \in {"start", "retry"} /\ state = 1)
            => /\ state' = 1
               /\ armed' = 0
               /\ rafQueue' = rafQueue
               /\ Len(timers') <= Len(timers)
               /\ dependencyCheckStart' = dependencyCheckStart
               /\ called' = << >>
      ]_vars

C12_Witness ==
    /\ op = "start"
    /\ arg \in Callbacks
    /\ state = 1
    /\ armed = 0
    /\ called = << >>
    /\ Len(rafQueue) = 1

(* The retry timers of the other attempts: those pending before the step,   *)
(* less the one a retry step consumes.                                      *)
OtherTimers == IF op' = "retry" THEN Tail(timers) ELSE timers

(* C18: a failed check whose wait exceeds the timeout leaves the engine     *)
(* stopped and schedules no retry for its attempt, so that attempt checks   *)
(* no more; a failed check within the timeout schedules exactly one retry,  *)
(* RetryInterval later and for the same callback.  A dependency check runs  *)
(* only in start() or in a retry that a pending timer scheduled.            *)
C18_TimeoutAbortsRetries ==
    [][ /\ (op' \in {"start", "retry"} /\ state = 0 /\ ~AllPredicatesTrue)
            => /\ state' = 0
               /\ armed' = 0
               /\ IF now - dependencyCheckStart' > dependencyCheckTimeout
                  THEN /\ timers' = OtherTimers
                       /\ IsFunction(arg') => (Len(called') = 1 /\ ~called'[1].success)
                  ELSE /\ Len(timers') = Len(OtherTimers) + 1
                       /\ SubSeq(timers', 1, Len(OtherTimers)) = OtherTimers
                       /\ timers'[Len(timers')].due = now + RetryInterval
                       /\ timers'[Len(timers')].cb = arg'
                       /\ called' = << >>
        /\ op' = "retry" => (timers # << >> /\ Head(timers).cb = arg' /\ Head(timers).due <= now)
        /\ (state = 0 /\ state' = 1 /\ timers = << >>) => op' = "start"
      ]_vars

C18_Witness ==
    /\ op = "retry"
    /\ state = 0
    /\ timers = << >>
    /\ Len(called) = 1
    /\ ~called[1].success
    /\ called[1].waited > dependencyCheckTimeout

(* C20: at most one frame callback is pending at any time *)
C20_SingleFrameChain == Len(rafQueue) <= 1


(* C13: a frame callback that finds the engine stopped does nothing; it      *)
(* requests no frame, leaves the alternator, tickStart, tickDelta, lastTick, *)
(* the frame counter and both draw counters as they are, and runs neither    *)
(* the behaviours, nor render (the viewports and the context are untouched), *)
(* nor the input tick.                                                       *)
C13_TickWhileStopped ==
    [][ (op' = "tick" /\ state = 0)
            => /\ armed' = 0
               /\ rafQueue' = Tail(rafQueue)
               /\ steps' = << >>
               /\ UNCHANGED << state, frameAlternator, tickStart, tickDelta, lastTick,
                               frames, drawCount, dpt, children, ctxDepth, renderLog >>
      ]_vars

C13_Witness ==
    /\ op = "tick"
    /\ state = 0
    /\ steps = << >>
    /\ rafQueue = << >>
    /\ frames > 0
    /\ frameAlternator

Position(q, x) == CHOOSE i \in 1..Len(q) : q[i] = x

Precedes(q, x, y) ==
    /\ \E i \in 1..Len(q) : q[i] = x
    /\ \E j \in 1..Len(q) : q[j] = y
    /\ Position(q, x) < Position(q, y)

Bookkeeping == {"lastTick", "_frames", "_dpt", "_drawCount"}

(* C14: a tick that finds the engine running requests the next frame before *)
(* it does anything else, then runs the behaviours, then render, then the    *)
(* bookkeeping (lastTick stored, the frame counter incremented, drawCount    *)
(* copied into the last-frame count and reset), and last the input tick,     *)
(* which it calls exactly once.                                              *)
C14_TickOrder ==
    [][ (op' = "tick" /\ state # 0)
            => /\ steps' # << >>
               /\ steps'[1] = "requestAnimFrame"
               /\ Precedes(steps', "_processBehaviours", "render")
               /\ \A b \in Bookkeeping :
                      Precedes(steps', "render", b) /\ Precedes(steps', b, "input.tick")
               /\ Cardinality({ i \in 1..Len(steps') : steps'[i] = "input.tick" }) = 1
               /\ lastTick' = tickStart'
               /\ frames' = frames + 1
               /\ dpt' = drawCount + renderLog'.draws
               /\ drawCount' = 0
      ]_vars


(* The draws of the last executed frame; none before the first one *)
LastFrameDraws == IF dpt = Undefined THEN 0 ELSE dpt

(* C15: every firing of the per-second timer, whatever the state, sets the  *)
(* frames per second to the frame counter, the draws per second to the last *)
(* frame's draw count times the new frames per second, and resets the frame *)
(* counter and the draw counter of the current frame; every executed tick   *)
(* adds one to the frame counter, so that it is counted in one window.      *)
C15_StatsCollector ==
    [][ /\ op' = "secondTick"
            => /\ fps' = frames
               /\ dps' = LastFrameDraws * fps'
               /\ frames' = 0
               /\ drawCount' = 0
        /\ (op' = "tick" /\ state # 0) => frames' = frames + 1
        /\ op' \notin {"tick", "secondTick"} => frames' = frames
      ]_vars

(* C16: newId() and newIdHex() add exactly one to idCounter before they      *)
(* build the identifier, and no other operation changes idCounter.           *)
C16_IdCounterGrowth ==
    [][ /\ op' \in {"newId", "newIdHex"} => idCounter' = idCounter + 1
        /\ op' \notin {"newId", "newIdHex"} => idCounter' = idCounter
        /\ op' = "newId" => \E r \in RandomSums : ret' = ToString(idCounter + 1 + r)
        /\ op' = "newIdHex" => \E r \in RandomSums : ret' = ToHex(idCounter + 1 + r)
      ]_vars

C16_Witness ==
    /\ op = "newIdHex"
    /\ idCounter = NowInit + 2
    /\ ret = ToHex(NowInit + 2)
    /\ state = 1
    /\ frames > 0
    /\ fps > 0
    /\ register["x"] = "A"


(* C17: an executed tick that is not the first one sets tickDelta to its    *)
(* corrected timestamp (the frame timestamp minus the clock offset) minus    *)
(* the corrected timestamp of the executed tick before it, whatever those    *)
(* are; every executed tick leaves its corrected timestamp in lastTick.      *)
(* tickStart holds the corrected timestamp of the last executed tick.        *)
C17_LaterTickDelta ==
    [][ (op' = "tick" /\ state # 0)
            => /\ tickStart' = now - clientNetDiff
               /\ lastTick' = now - clientNetDiff
               /\ tickStart # Undefined => tickDelta' = (now - clientNetDiff) - tickStart
      ]_vars

(* C19: sceneGraph() returns without an error on every tree, and neither it *)
(* nor getSceneGraphData() changes anything in the tree.                    *)
C19_SceneGraphCompletes ==
    [][ /\ op' = "sceneGraph" => ret' # "throws"
        /\ op' \in {"sceneGraph", "getSceneGraphData"}
               => UNCHANGED << scenes, children >>
      ]_vars


(* C22: after any register() and unRegister() calls, the registered flag of *)
(* an object is true exactly when the register maps the identifier the      *)
(* object reports to that object.                                           *)
C22_RegisteredFlagMatches ==
    \A obj \in Objs : registered[obj] <=> register[id(obj)] = obj


(* The retry loops of the model end within its time: the timeout is one of  *)
(* TimeoutVals, not the 30 s of init.                                       *)
ShortTimeout == dependencyCheckTimeout \in TimeoutVals

(* C21: with timers that fire, every start(callback) call made while the    *)
(* engine is stopped leads to an invocation of its callback, and to one     *)
(* only: a callback waiting in a retry loop is eventually invoked, a step   *)
(* invokes at most one callback, and the invoked callback waits no more.    *)
C21_EveryCallAnswered ==
    /\ \A cb \in Callbacks : (Pending(cb) /\ ShortTimeout) ~> Invoked(cb)
    /\ [][ /\ Len(called') <= 1
           /\ \A cb \in Callbacks : Invoked(cb)' => ~Pending(cb)' ]_vars

=============================================================================
